---- MODULE Spec2Model ----
(***************************************************************************)
(* A model of border.py: the border/resize transformer add_white_border,   *)
(* the configuration store (save_configuration, get_all_config_files,      *)
(* load_selected_configuration) and the batch driver process_images.       *)
(*                                                                         *)
(* Texts (entry contents, file names, paths) are sequences of one-character*)
(* strings, so that int(), os.path.splitext, os.path.basename and          *)
(* os.path.join are computed the way the library computes them.            *)
(* resize_width, resize_height and calculated_border_size are Python       *)
(* floats in the source; they are kept here as exact fractions num/den.    *)
(* For the pixel sizes of the model a quotient of two integers is either   *)
(* an integer (and then exact as a float) or at least 1/den away from one, *)
(* so int() of the float and truncation of the fraction agree.             *)
(***************************************************************************)
EXTENDS Integers, Sequences, FiniteSets, TLC

VARIABLES
    pc,                 \* where the program is: start, idle, a dialog, the batch loop
    fields,             \* the four tk.Entry widgets: key -> text
    configs,            \* the *.json files of the working directory: file name -> content
    load_combo,         \* load_combo['values']
    last,               \* history: the last step, its notification, and for a load
                        \* the file it asked for and the entry texts before it
    input_file_paths,   \* the files chosen in askopenfilenames
    output_directory,   \* the directory chosen in askdirectory
    idx,                \* position of the for loop of process_images
    written,            \* the images saved by the current run: set of [src, path, size]
    params,             \* process_images' locals: the validated parameters
    call,               \* the arguments of the last add_white_border call
    ret,                \* what that call computed and how it ended
    log,                \* history: the outcome of each pass of the current batch loop
    lastSaved           \* history: the entry texts at the last write of each config file

vars == <<pc, fields, configs, load_combo, last, input_file_paths, output_directory,
          idx, written, params, call, ret, log, lastSaved>>

----------------------------------------------------------------------------
(* Texts *)

Digits == {"0", "1", "2", "3", "4", "5", "6", "7", "8", "9"}

DigitVal(c) ==
    CASE c = "0" -> 0 [] c = "1" -> 1 [] c = "2" -> 2 [] c = "3" -> 3 [] c = "4" -> 4
      [] c = "5" -> 5 [] c = "6" -> 6 [] c = "7" -> 7 [] c = "8" -> 8 [] c = "9" -> 9

RECURSIVE NatVal(_)
NatVal(t) ==
    IF t = <<>> THEN 0
    ELSE 10 * NatVal(SubSeq(t, 1, Len(t) - 1)) + DigitVal(t[Len(t)])

\* the digits of an int() argument, after its optional sign
IntBody(t) == IF t # <<>> /\ t[1] \in {"-", "+"} THEN Tail(t) ELSE t

\* int(text) does not raise ValueError (for texts of digits, signs and letters: the
\* blanks and underscores int() also accepts are not among the texts typed here)
IntParses(t) == IntBody(t) # <<>> /\ \A i \in 1..Len(IntBody(t)) : IntBody(t)[i] \in Digits

\* int(text)
IntValue(t) == IF t # <<>> /\ t[1] = "-" THEN 0 - NatVal(IntBody(t)) ELSE NatVal(IntBody(t))

\* str.rfind, 1-based, 0 when absent
LastIndexOf(p, c) ==
    LET hits == {i \in 1..Len(p) : p[i] = c}
    IN  IF hits = {} THEN 0 ELSE CHOOSE i \in hits : \A j \in hits : j <= i

\* os.path.splitext: <<root, ext>>; leading dots of the last component are no extension
splitext(p) ==
    LET sepIndex == LastIndexOf(p, "/")
        dotIndex == LastIndexOf(p, ".")
    IN  IF dotIndex > sepIndex /\ \E i \in (sepIndex + 1)..(dotIndex - 1) : p[i] # "."
        THEN <<SubSeq(p, 1, dotIndex - 1), SubSeq(p, dotIndex, Len(p))>>
        ELSE <<p, <<>>>>

\* os.path.basename
basename(p) == SubSeq(p, LastIndexOf(p, "/") + 1, Len(p))

\* os.path.join of two components
join(a, b) ==
    IF b # <<>> /\ b[1] = "/" THEN b
    ELSE IF a = <<>> \/ a[Len(a)] = "/" THEN a \o b
    ELSE a \o <<"/">> \o b

endswith(t, suffix) ==
    Len(t) >= Len(suffix) /\ SubSeq(t, Len(t) - Len(suffix) + 1, Len(t)) = suffix

----------------------------------------------------------------------------
(* Program constants *)

last_json_data == <<"l", "a", "s", "t", "_", "c", "o", "n", "f", "i", "g">>

JsonExt == <<".", "j", "s", "o", "n">>

WIDTH_ENTRY == "output_width"
HEIGHT_ENTRY == "output_height"
BORDER_SIZE_HEIGHT_ENTRY == "height_border_size"
POSTFIX_ENTRY == "postfix"

Entries == {WIDTH_ENTRY, HEIGHT_ENTRY, BORDER_SIZE_HEIGHT_ENTRY, POSTFIX_ENTRY}

\* Orientation: the EXIF codes the transformer reacts to
NORMAL == 1
CLOCKWISE_90 == 8
CLOCKWISE_180 == 3
CLOCKWISE_270 == 6

\* no EXIF data at all (exif_data is falsy)
NoExif == 0

\* an EXIF orientation the source does not test for (mirrored)
MirroredCode == 2

----------------------------------------------------------------------------
(* add_white_border: geometry *)

\* int() of a float num/den, den > 0: truncation toward zero
Trunc(num, den) == IF num >= 0 THEN num \div den ELSE 0 - ((0 - num) \div den)

\* img_copy.size after the EXIF rotation (rotate(.., expand=True))
RotatedSize(size, orientation) ==
    IF orientation \in {CLOCKWISE_90, CLOCKWISE_270}
    THEN [w |-> size.h, h |-> size.w]
    ELSE size

IsPortrait(original) == original.h > original.w

\* Geometry without its portrait branch: every image is treated as landscape
Geometry_LandscapeOnly(original, output_width, output_height, longest_side_border_size) ==
    LET resize_width == output_width - (longest_side_border_size * 2)
    IN  [resize_width  |-> [num |-> resize_width, den |-> 1],
         resize_height |-> [num |-> resize_width * original.h, den |-> original.w],
         calculated_border_size |->
             [num |-> output_height * original.w - resize_width * original.h,
              den |-> 2 * original.w]]

\* lines 78-85: resize_width, resize_height, calculated_border_size as fractions
Geometry(original, output_width, output_height, longest_side_border_size) ==
    IF IsPortrait(original)
    THEN LET resize_height == output_height - (longest_side_border_size * 2)
         IN  [resize_height |-> [num |-> resize_height, den |-> 1],
              resize_width  |-> [num |-> resize_height * original.w, den |-> original.h],
              calculated_border_size |->
                  [num |-> output_width * original.h - resize_height * original.w,
                   den |-> 2 * original.h]]
    ELSE LET resize_width == output_width - (longest_side_border_size * 2)
         IN  [resize_width  |-> [num |-> resize_width, den |-> 1],
              resize_height |-> [num |-> resize_width * original.h, den |-> original.w],
              calculated_border_size |->
                  [num |-> output_height * original.w - resize_width * original.h,
                   den |-> 2 * original.w]]

\* NeedsCrop with the comparison turned round
NeedsCrop_Inverted(g) == g.calculated_border_size.num > 0

\* line 88
NeedsCrop(g) == g.calculated_border_size.num < 0

\* line 97: the size handed to img_copy.resize
ResizedSize(g) ==
    [w |-> Trunc(g.resize_width.num, g.resize_width.den),
     h |-> Trunc(g.resize_height.num, g.resize_height.den)]

\* BorderedSize with the border added on one side only
BorderedSize_OneSide(original, g, longest_side_border_size) ==
    LET calc == Trunc(g.calculated_border_size.num, g.calculated_border_size.den)
        r == [w |-> Trunc(g.resize_width.num, g.resize_width.den),
              h |-> Trunc(g.resize_height.num, g.resize_height.den)]
    IN  IF IsPortrait(original)
        THEN [w |-> r.w + calc, h |-> r.h + longest_side_border_size]
        ELSE [w |-> r.w + longest_side_border_size, h |-> r.h + calc]

\* lines 100-105: the size of ImageOps.expand's result (border on both sides)
BorderedSize(original, g, longest_side_border_size) ==
    LET calc == Trunc(g.calculated_border_size.num, g.calculated_border_size.den)
        r == ResizedSize(g)
    IN  IF IsPortrait(original)
        THEN [w |-> r.w + 2 * calc, h |-> r.h + 2 * longest_side_border_size]
        ELSE [w |-> r.w + 2 * longest_side_border_size, h |-> r.h + 2 * calc]

\* FinalSize without the corrective resize of line 109
FinalSize_NoCorrectiveResize(bordered, output_width, output_height) == bordered

\* line 109: the size of the image that is saved
FinalSize(bordered, output_width, output_height) ==
    [w |-> output_width, h |-> output_height]

\* Image.resize raises ValueError for a side below 1, Image.new (in expand) for a
\* negative side: the exception leaves add_white_border and process_images.
\* (When none of these holds the bordered image has no empty side either.)
Raises(g, bordered, output_width, output_height) ==
    \/ ResizedSize(g).w < 1 \/ ResizedSize(g).h < 1
    \/ bordered.w < 0 \/ bordered.h < 0
    \/ output_width < 1 \/ output_height < 1

\* lines 74-75
new_output_image_path(output_image_path, postfix) ==
    splitext(output_image_path)[1] \o postfix \o splitext(output_image_path)[2]

----------------------------------------------------------------------------
(* add_white_border: the call *)

NoSize == [w |-> 0, h |-> 0]

NoImage == [path |-> <<>>, size |-> NoSize, orientation |-> NoExif]

NoCall ==
    [img |-> NoImage, output_image_path |-> <<>>, output_width |-> 0, output_height |-> 0,
     longest_side_border_size |-> 0, postfix |-> <<>>]

NoGeometry ==
    [resize_width |-> [num |-> 0, den |-> 1], resize_height |-> [num |-> 0, den |-> 1],
     calculated_border_size |-> [num |-> 0, den |-> 1]]

NoRet ==
    [status |-> "none", asked |-> FALSE, original |-> NoSize, g |-> NoGeometry,
     resized |-> NoSize, bordered |-> NoSize, size |-> NoSize, path |-> <<>>]

\* what one call of add_white_border computes; answer is the reply to "Proceed?"
\* (read only when the question is asked)
AddWhiteBorderResult(img, output_image_path, output_width, output_height, longest_side_border_size, postfix, answer) ==
    LET original == RotatedSize(img.size, img.orientation)
        g == Geometry(original, output_width, output_height, longest_side_border_size)
        bordered == BorderedSize(original, g, longest_side_border_size)
        path == new_output_image_path(output_image_path, postfix)
        computed == [NoRet EXCEPT !.asked = NeedsCrop(g), !.original = original,
                                  !.g = g, !.path = path]
    IN  IF NeedsCrop(g) /\ answer = "no"
        THEN [computed EXCEPT !.status = "declined"]
        ELSE IF Raises(g, bordered, output_width, output_height)
        THEN [computed EXCEPT !.status = "raised"]
        ELSE [computed EXCEPT !.status = "saved",
                              !.resized = ResizedSize(g),
                              !.bordered = bordered,
                              !.size = FinalSize(bordered, output_width, output_height)]

\* the replies messagebox.askquestion can give for these arguments
Answers(img, output_width, output_height, longest_side_border_size) ==
    IF NeedsCrop(Geometry(RotatedSize(img.size, img.orientation), output_width,
                          output_height, longest_side_border_size))
    THEN {"yes", "no"}
    ELSE {"none"}

\* add_white_border as a step: the result, and the file saved at line 112
AddWhiteBorder(img, output_image_path, output_width, output_height, longest_side_border_size, postfix, answer) ==
    LET r == AddWhiteBorderResult(img, output_image_path, output_width, output_height,
                                  longest_side_border_size, postfix, answer)
    IN  /\ call' = [img |-> img, output_image_path |-> output_image_path,
                    output_width |-> output_width, output_height |-> output_height,
                    longest_side_border_size |-> longest_side_border_size,
                    postfix |-> postfix]
        /\ ret' = r
        /\ written' = IF r.status = "saved"
                      THEN {x \in written : x.path # r.path}
                           \cup {[src |-> img.path, path |-> r.path, size |-> r.size]}
                      ELSE written

----------------------------------------------------------------------------
(* Configuration store *)

EmptyStore == [f \in {} |-> f]

BlankFields == [k \in Entries |-> <<>>]

NoParams == [output_width |-> 0, output_height |-> 0, height_border_size |-> 0,
             postfix |-> <<>>]

\* a step that is no load: op is the handler, msg the messagebox it showed
Did(op, msg) == [op |-> op, msg |-> msg, file |-> <<>>, found |-> FALSE,
                 before |-> BlankFields]

\* lines 129-136: the file name and the dictionary that is dumped
config_filename(config_name) == config_name \o JsonExt

\* config_data with the width and the height stored under each other's key
config_data_SwappedKeys(entries) ==
    [output_width       |-> entries[HEIGHT_ENTRY],
     output_height      |-> entries[WIDTH_ENTRY],
     height_border_size |-> entries[BORDER_SIZE_HEIGHT_ENTRY],
     postfix            |-> entries[POSTFIX_ENTRY]]

config_data(entries) ==
    [output_width       |-> entries[WIDTH_ENTRY],
     output_height      |-> entries[HEIGHT_ENTRY],
     height_border_size |-> entries[BORDER_SIZE_HEIGHT_ENTRY],
     postfix            |-> entries[POSTFIX_ENTRY]]

\* json.dump / json.load of a dictionary of strings: every value is a JSON string
JsonDump(data) == [k \in DOMAIN data |-> [type |-> "string", chars |-> data[k]]]

JsonLoad(content) == [k \in DOMAIN content |-> content[k].chars]

\* lines 170-177: each entry is emptied and filled with config.get(key, "")
LoadedFields(config) ==
    [k \in Entries |-> IF k \in DOMAIN config THEN config[k] ELSE <<>>]

\* line 152
get_all_config_files(store) ==
    {splitext(f)[1] : f \in {x \in DOMAIN store :
                                endswith(x, JsonExt) /\ x # config_filename(last_json_data)}}

\* lines 128-146 of save_configuration, for the name it settled on
SaveConfiguration(op, config_name) ==
    IF config_name # <<>>
    THEN /\ configs' = (config_filename(config_name) :> JsonDump(config_data(fields)))
                        @@ configs
         /\ load_combo' = get_all_config_files(configs')
         /\ lastSaved' = (config_filename(config_name) :> fields) @@ lastSaved
         /\ last' = Did(op, "none")
    ELSE /\ last' = Did(op, "Invalid Name")
         /\ UNCHANGED <<configs, load_combo, lastSaved>>

\* LoadConfiguration emptying the entries before it finds the file missing
LoadConfiguration_ClearsFirst(op, selected_file) ==
    /\ fields' = IF selected_file \in DOMAIN configs
                 THEN [k \in Entries |->
                          IF k \in DOMAIN configs[selected_file]
                          THEN configs[selected_file][k].chars ELSE <<>>]
                 ELSE BlankFields
    /\ last' = [op |-> op, msg |-> "none", file |-> selected_file,
                found |-> selected_file \in DOMAIN configs, before |-> fields]

\* lines 165-179 of load_selected_configuration, for the file it settled on:
\* a missing file is passed over (except FileNotFoundError: pass)
LoadConfiguration(op, selected_file) ==
    /\ fields' = IF selected_file \in DOMAIN configs
                 THEN LoadedFields(JsonLoad(configs[selected_file]))
                 ELSE fields
    /\ last' = [op |-> op, msg |-> "none", file |-> selected_file,
                found |-> selected_file \in DOMAIN configs, before |-> fields]

RunLocals == <<input_file_paths, output_directory, idx, written, params, call, ret, log>>

\* process_images returns: its locals are gone
DropRunLocals ==
    /\ input_file_paths' = <<>>
    /\ output_directory' = <<>>
    /\ idx' = 0
    /\ written' = {}
    /\ params' = NoParams
    /\ call' = NoCall
    /\ ret' = NoRet
    /\ log' = <<>>

----------------------------------------------------------------------------
(* The window and its handlers *)

Init ==
    /\ pc = "start"
    /\ fields = BlankFields
    /\ configs = EmptyStore
    /\ load_combo = {}
    /\ last = Did("none", "none")
    /\ input_file_paths = <<>>
    /\ output_directory = <<>>
    /\ idx = 0
    /\ written = {}
    /\ params = NoParams
    /\ call = NoCall
    /\ ret = NoRet
    /\ log = <<>>
    /\ lastSaved = EmptyStore

\* lines 229-269: the entries are created empty, the last-used record is loaded,
\* the dropdown is filled
Startup ==
    /\ pc = "start"
    /\ LoadConfiguration("startup", config_filename(last_json_data))
    /\ load_combo' = get_all_config_files(configs)
    /\ pc' = "idle"
    /\ UNCHANGED <<configs, lastSaved>>
    /\ UNCHANGED RunLocals

\* the user types into the entries
Edit(texts) ==
    /\ pc = "idle"
    /\ \E t \in texts :
          /\ t # fields
          /\ fields' = t
    /\ last' = Did("edit", "none")
    /\ UNCHANGED <<pc, configs, load_combo, lastSaved>>
    /\ UNCHANGED RunLocals

\* the Save button: save_configuration(all_entries, source="button"); the name is
\* what simpledialog.askstring returns (<<>>: cancelled or left empty)
SaveButton(names) ==
    /\ pc = "idle"
    /\ \E config_name \in names \cup {<<>>} : SaveConfiguration("save", config_name)
    /\ UNCHANGED <<pc, fields>>
    /\ UNCHANGED RunLocals

\* <<ComboboxSelected>>: load_selected_configuration(event), load_combo.get() being
\* the value picked in the dropdown
LoadSelected ==
    /\ pc = "idle"
    /\ \E selected \in load_combo : LoadConfiguration("load", config_filename(selected))
    /\ UNCHANGED <<pc, configs, load_combo, lastSaved>>
    /\ UNCHANGED RunLocals

\* Validation without the test of the postfix
Validation_NoPostfixCheck(entries) ==
    IF \/ ~IntParses(entries[WIDTH_ENTRY])
       \/ ~IntParses(entries[HEIGHT_ENTRY])
       \/ ~IntParses(entries[BORDER_SIZE_HEIGHT_ENTRY])
    THEN "ValueError"
    ELSE "ok"

\* lines 185-199: the try block of process_images
Validation(entries) ==
    IF \/ ~IntParses(entries[WIDTH_ENTRY])
       \/ ~IntParses(entries[HEIGHT_ENTRY])
       \/ ~IntParses(entries[BORDER_SIZE_HEIGHT_ENTRY])
    THEN "ValueError"
    ELSE IF entries[POSTFIX_ENTRY] = <<>> THEN "TypeError"
    ELSE "ok"

\* Submit with save_configuration left for after the dialogs
Submit_SavesLater ==
    /\ pc = "idle"
    /\ IF Validation(fields) = "ok"
       THEN /\ last' = Did("submit", "none")
            /\ params' = [output_width |-> IntValue(fields[WIDTH_ENTRY]),
                          output_height |-> IntValue(fields[HEIGHT_ENTRY]),
                          height_border_size |-> IntValue(fields[BORDER_SIZE_HEIGHT_ENTRY]),
                          postfix |-> fields[POSTFIX_ENTRY]]
            /\ pc' = "askopenfilenames"
            /\ UNCHANGED <<configs, load_combo, lastSaved>>
       ELSE /\ last' = Did("submit", "Invalid Input")
            /\ UNCHANGED <<pc, configs, load_combo, lastSaved, params>>
    /\ UNCHANGED <<fields, input_file_paths, output_directory, idx, written, call, ret,
                   log>>

\* the Process button or <Return>: process_images up to its first dialog
Submit ==
    /\ pc = "idle"
    /\ IF Validation(fields) = "ok"
       THEN /\ SaveConfiguration("submit", last_json_data)
            /\ params' = [output_width |-> IntValue(fields[WIDTH_ENTRY]),
                          output_height |-> IntValue(fields[HEIGHT_ENTRY]),
                          height_border_size |-> IntValue(fields[BORDER_SIZE_HEIGHT_ENTRY]),
                          postfix |-> fields[POSTFIX_ENTRY]]
            /\ pc' = "askopenfilenames"
       ELSE /\ last' = Did("submit", IF Validation(fields) = "ValueError"
                                      THEN "Invalid Input: Please enter valid values."
                                      ELSE "Invalid Input: Add a postfix")
            /\ UNCHANGED <<pc, configs, load_combo, lastSaved, params>>
    /\ UNCHANGED <<fields, input_file_paths, output_directory, idx, written, call, ret,
                   log>>

\* lines 203-206: the file dialog returns the chosen files, or nothing
FilesDialog(batches) ==
    /\ pc = "askopenfilenames"
    /\ \/ /\ \E chosen \in batches : input_file_paths' = chosen
          /\ pc' = "askdirectory"
          /\ last' = Did("askopenfilenames", "none")
          /\ UNCHANGED <<output_directory, idx, written, params, call, ret, log>>
       \/ /\ pc' = "idle"
          /\ last' = Did("cancel", "none")
          /\ DropRunLocals
    /\ UNCHANGED <<fields, configs, load_combo, lastSaved>>

\* lines 207-212: the directory dialog returns a directory, or nothing
DirDialog(dirs) ==
    /\ pc = "askdirectory"
    /\ \/ /\ \E chosen \in dirs : output_directory' = chosen
          /\ idx' = 1
          /\ pc' = "loop"
          /\ last' = Did("askdirectory", "none")
          /\ UNCHANGED <<input_file_paths, written, params, call, ret, log>>
       \/ /\ pc' = "idle"
          /\ last' = Did("cancel", "none")
          /\ DropRunLocals
    /\ UNCHANGED <<fields, configs, load_combo, lastSaved>>

\* LoopBody leaving the loop when add_white_border reports a declined file
LoopBody_StopsOnDecline ==
    /\ pc = "loop"
    /\ idx <= Len(input_file_paths)
    /\ LET input_image == input_file_paths[idx]
           output_image_path == join(output_directory, basename(input_image.path))
       IN  \E answer \in Answers(input_image, params.output_width, params.output_height,
                                  params.height_border_size) :
              /\ AddWhiteBorder(input_image, output_image_path, params.output_width,
                                params.output_height, params.height_border_size,
                                params.postfix, answer)
              /\ log' = Append(log, [src |-> input_image.path, answer |-> answer,
                                     status |-> ret'.status])
    /\ IF ret'.status \in {"raised", "declined"}
       THEN /\ pc' = "raised"
            /\ idx' = idx
       ELSE /\ pc' = "loop"
            /\ idx' = idx + 1
    /\ last' = Did("add_white_border", "none")
    /\ UNCHANGED <<fields, configs, load_combo, lastSaved, input_file_paths,
                   output_directory, params>>

\* lines 214-217: one pass of the for loop. An exception of add_white_border is
\* caught nowhere: it ends process_images
LoopBody ==
    /\ pc = "loop"
    /\ idx <= Len(input_file_paths)
    /\ LET input_image == input_file_paths[idx]
           filename == basename(input_image.path)
           output_image_path == join(output_directory, filename)
       IN  \E answer \in Answers(input_image, params.output_width, params.output_height,
                                  params.height_border_size) :
              /\ AddWhiteBorder(input_image, output_image_path, params.output_width,
                                params.output_height, params.height_border_size,
                                params.postfix, answer)
              /\ log' = Append(log, [src |-> input_image.path, answer |-> answer,
                                     status |-> ret'.status])
    /\ IF ret'.status = "raised"
       THEN /\ pc' = "raised"
            /\ idx' = idx
       ELSE /\ pc' = "loop"
            /\ idx' = idx + 1
    /\ last' = Did("add_white_border", "none")
    /\ UNCHANGED <<fields, configs, load_combo, lastSaved, input_file_paths,
                   output_directory, params>>

\* the exception reaches tkinter's callback wrapper, which prints the traceback
ExceptionReported ==
    /\ pc = "raised"
    /\ pc' = "idle"
    /\ last' = Did("process_images", "traceback")
    /\ DropRunLocals
    /\ UNCHANGED <<fields, configs, load_combo, lastSaved>>

\* line 219: the loop is over, the completion notice is shown
Complete ==
    /\ pc = "loop"
    /\ idx > Len(input_file_paths)
    /\ last' = Did("process_images", "Process Complete")
    /\ pc' = "showinfo"
    /\ UNCHANGED <<fields, configs, load_combo, lastSaved>>
    /\ UNCHANGED RunLocals

\* lines 220-221: the notice is dismissed, the explorer is started, the handler returns
Dismiss ==
    /\ pc = "showinfo"
    /\ pc' = "idle"
    /\ last' = Did("process_images", "none")
    /\ DropRunLocals
    /\ UNCHANGED <<fields, configs, load_combo, lastSaved>>

\* the window is closed and the program started again: the files stay
Restart ==
    /\ pc = "idle"
    /\ pc' = "start"
    /\ fields' = BlankFields
    /\ load_combo' = {}
    /\ last' = Did("quit", "none")
    /\ DropRunLocals
    /\ UNCHANGED <<configs, lastSaved>>
----------------------------------------------------------------------------
(* Inputs *)

Text4(w, h, b, p) ==
    (WIDTH_ENTRY :> w) @@ (HEIGHT_ENTRY :> h) @@ (BORDER_SIZE_HEIGHT_ENTRY :> b)
    @@ (POSTFIX_ENTRY :> p)

Image(path, w, h, orientation) ==
    [path |-> path, size |-> [w |-> w, h |-> h], orientation |-> orientation]

\* source images, all in directory d
Portrait34 == Image(<<"d", "/", "a", ".", "j">>, 3, 4, NoExif)
Portrait14 == Image(<<"d", "/", "b", ".", "j">>, 1, 4, NORMAL)
Landscape42 == Image(<<"d", "/", "c">>, 4, 2, MirroredCode)
Rotated43 == Image(<<"d", "/", ".", "j">>, 4, 3, CLOCKWISE_270)

Images == {Portrait34, Portrait14, Landscape42, Rotated43}

MaxBatch == 3

\* what askopenfilenames can return: up to MaxBatch different files, in any order
Batches ==
    {s \in UNION {[1..n -> Images] : n \in 1..MaxBatch} :
        \A i, j \in 1..Len(s) : i # j => s[i] # s[j]}

\* what askdirectory can return: the sources' own directory, or another
Dirs == {<<"d">>, <<"o", ".", "p">>}

\* what the user types into the four entries
ParamTexts ==
    {Text4(w, h, b, p) : w \in {<<"4">>, <<"0">>}, h \in {<<"8">>, <<"x">>},
                         b \in {<<"1">>, <<"-", "1">>}, p \in {<<"_", "b">>, <<>>}}

\* what the user types into the Save dialog
ConfigNames == {<<"a">>, <<".">>}

BatchTexts ==
    {Text4(<<"4">>, <<"8">>, <<"1">>, <<"_", "b">>),
     Text4(<<"4">>, <<"8">>, <<"1">>, <<".">>),
     Text4(<<"2">>, <<"8">>, <<"1">>, <<"_", "b">>),
     Text4(<<"4">>, <<"8">>, <<"1">>, <<>>)}

----------------------------------------------------------------------------
(* Specifications *)

\* the program with the inputs of the user drawn from the given sets
NextOver(texts, names, batches, dirs) ==
    \/ Startup
    \/ Edit(texts)
    \/ SaveButton(names)
    \/ LoadSelected
    \/ Submit
    \/ FilesDialog(batches)
    \/ DirDialog(dirs)
    \/ LoopBody
    \/ ExceptionReported
    \/ Complete
    \/ Dismiss
    \/ Restart

\* a session: the configuration store in full, one-file batches
Next == NextOver(ParamTexts, ConfigNames, {<<Portrait34>>}, {<<"d">>})

Spec == Init /\ [][Next]_vars

\* a session: batches in full, one configuration name
BatchNext == NextOver(BatchTexts, {<<"a">>}, Batches, Dirs)

BatchSpec == Init /\ [][BatchNext]_vars

----------------------------------------------------------------------------
(* add_white_border on its own: the arguments are drawn in the initial state *)

MaxSide == 4
MaxOutput == 6
MaxBorder == 2

Orientations == {NoExif, NORMAL, CLOCKWISE_90, CLOCKWISE_180, CLOCKWISE_270, MirroredCode}

SomePath == <<"d", "/", "a", ".", "j">>

Call(img, output_width, output_height, border) ==
    [img |-> img, output_image_path |-> join(<<"o">>, basename(img.path)),
     output_width |-> output_width, output_height |-> output_height,
     longest_side_border_size |-> border, postfix |-> <<"_", "b">>]

\* the two scenarios of the specification's section 8
ScenarioPortrait == Call(Image(SomePath, 1000, 2000, NoExif), 800, 1600, 40)
ScenarioLandscape == Call(Image(SomePath, 4000, 3000, NoExif), 1200, 1500, 50)

\* process_images hands over whatever int() accepted: zero and negative values too
TransformerCalls ==
    {Call(Image(SomePath, w, h, o), ow, oh, b) :
        w \in 1..MaxSide, h \in 1..MaxSide, o \in Orientations,
        ow \in (0 - 1)..MaxOutput, oh \in (0 - 1)..MaxOutput, b \in (0 - 1)..MaxBorder}
    \cup {ScenarioPortrait, ScenarioLandscape}

TransformerInit ==
    /\ pc = "call"
    /\ call \in TransformerCalls
    /\ ret = NoRet
    /\ written = {}
    /\ fields = BlankFields
    /\ configs = EmptyStore
    /\ load_combo = {}
    /\ last = Did("none", "none")
    /\ input_file_paths = <<>>
    /\ output_directory = <<>>
    /\ idx = 0
    /\ params = NoParams
    /\ log = <<>>
    /\ lastSaved = EmptyStore

TransformerCall ==
    /\ pc = "call"
    /\ \E answer \in Answers(call.img, call.output_width, call.output_height,
                              call.longest_side_border_size) :
          /\ AddWhiteBorder(call.img, call.output_image_path, call.output_width,
                            call.output_height, call.longest_side_border_size,
                            call.postfix, answer)
          /\ log' = <<[src |-> call.img.path, answer |-> answer, status |-> ret'.status]>>
    /\ pc' = "returned"
    /\ UNCHANGED <<fields, configs, load_combo, last, input_file_paths, output_directory,
                   idx, params, lastSaved>>

TransformerNext == TransformerCall

TransformerSpec == TransformerInit /\ [][TransformerNext]_vars

----------------------------------------------------------------------------
(* Properties of add_white_border, checked under TransformerSpec *)

Abs(x) == IF x < 0 THEN 0 - x ELSE x

RECURSIVE Gcd(_, _)
Gcd(a, b) == IF b = 0 THEN a ELSE Gcd(b, a % b)

\* a fraction in lowest terms (den > 0)
Reduced(f) ==
    LET d == Gcd(Abs(f.num), f.den)
    IN  [num |-> f.num \div d, den |-> f.den \div d]

\* equality of fractions, without products that leave TLC's integers
FracEq(a, b) == Reduced(a) = Reduced(b)

Frac(num, den) == [num |-> num, den |-> den]

TargetSize == [w |-> call.output_width, h |-> call.output_height]

\* C1: whenever add_white_border saves an image, the saved image has exactly the
\* target width and the target height, whatever the rounding of the inner resize
\* and of the derived border was.
C1_OutputHasTargetSize ==
    /\ \A x \in written : x.size = TargetSize
    /\ ret.status = "saved" =>
          /\ ret.size = TargetSize
          /\ written = {[src |-> call.img.path, path |-> ret.path, size |-> TargetSize]}

\* an image was saved whose bordered size was not the target size
C1_Witness ==
    /\ ret.status = "saved"
    /\ ret.bordered # TargetSize
    /\ written # {}

\* C5: for a portrait source (height > width after the EXIF rotation) the inner
\* height is target height - 2 x border, the inner width is inner height x source
\* width / source height, the derived border is (target width - inner width) / 2;
\* for a landscape or square source width and height change roles. Source
\* 1000x2000, target 800x1600, border 40 gives 1520, 760, 20 and an 800x1600 output.
C5_GeometryFormulas ==
    pc = "returned" =>
      LET o == ret.original
          g == ret.g
          b == call.longest_side_border_size
      IN  /\ o = RotatedSize(call.img.size, call.img.orientation)
          /\ IF o.h > o.w
             THEN /\ FracEq(g.resize_height, Frac(call.output_height - 2 * b, 1))
                  /\ FracEq(g.resize_width,
                            Frac(g.resize_height.num * o.w, g.resize_height.den * o.h))
                  /\ FracEq(g.calculated_border_size,
                            Frac(call.output_width * g.resize_width.den - g.resize_width.num,
                                 2 * g.resize_width.den))
             ELSE /\ FracEq(g.resize_width, Frac(call.output_width - 2 * b, 1))
                  /\ FracEq(g.resize_height,
                            Frac(g.resize_width.num * o.h, g.resize_width.den * o.w))
                  /\ FracEq(g.calculated_border_size,
                            Frac(call.output_height * g.resize_height.den
                                    - g.resize_height.num,
                                 2 * g.resize_height.den))
          /\ call = ScenarioPortrait =>
                /\ FracEq(g.resize_height, Frac(1520, 1))
                /\ FracEq(g.resize_width, Frac(760, 1))
                /\ FracEq(g.calculated_border_size, Frac(20, 1))
                /\ ret.status = "saved"
                /\ ret.resized = [w |-> 760, h |-> 1520]
                /\ ret.size = [w |-> 800, h |-> 1600]

\* the portrait scenario was processed and its image saved
C5_Witness ==
    /\ pc = "returned"
    /\ call = ScenarioPortrait
    /\ ret.status = "saved"
    /\ written # {}

\* C6 as stated: for source 4000x3000, target 1200x1500, border 50 the derived
\* top/bottom border is negative and the crop question is asked.
C6_ScenarioAsksToCrop ==
    (pc = "returned" /\ call = ScenarioLandscape) =>
        /\ ret.g.calculated_border_size.num < 0
        /\ ret.asked

\* C6, amended: for source 4000x3000, target 1200x1500, border 50 the derived
\* top/bottom border is 337.5, not negative: no question is asked and the image is
\* saved as 1200x1500. Whenever the derived border is negative and the user
\* declines, no output file exists for that image.
C6_ScenarioIsNotCropped ==
    /\ (pc = "returned" /\ call = ScenarioLandscape) =>
          /\ FracEq(ret.g.resize_width, Frac(1100, 1))
          /\ FracEq(ret.g.resize_height, Frac(825, 1))
          /\ FracEq(ret.g.calculated_border_size, Frac(675, 2))
          /\ ~ret.asked
          /\ ret.status = "saved"
          /\ ret.size = [w |-> 1200, h |-> 1500]
    /\ pc = "returned" =>
          /\ ret.asked <=> ret.g.calculated_border_size.num < 0
          /\ ret.status = "declined" => (ret.asked /\ written = {})
          /\ (ret.asked /\ log[1].answer = "no") => (ret.status = "declined" /\ written = {})

\* the landscape scenario was processed
C6_Witness ==
    /\ pc = "returned"
    /\ call = ScenarioLandscape
    /\ ret.status = "saved"

\* C10: when the derived border is not negative, the bordered image before the
\* corrective resize has exactly the target size on the axis of the given border
\* and is within two pixels of the target size on the axis of the derived border.
C10_BorderedWithinTwoPixels ==
    (ret.status = "saved" /\ ~ret.asked) =>
        IF IsPortrait(ret.original)
        THEN /\ ret.bordered.h = call.output_height
             /\ Abs(ret.bordered.w - call.output_width) <= 2
        ELSE /\ ret.bordered.w = call.output_width
             /\ Abs(ret.bordered.h - call.output_height) <= 2

\* both truncations lost the most they can: the bordered image is two pixels short
C10_Witness ==
    /\ ret.status = "saved"
    /\ ~ret.asked
    /\ \/ IsPortrait(ret.original) /\ ret.bordered.w = call.output_width - 2
       \/ ~IsPortrait(ret.original) /\ ret.bordered.h = call.output_height - 2

----------------------------------------------------------------------------
(* Properties of the configuration store, checked under Spec *)

LastUsedFile == config_filename(last_json_data)

\* the entry texts a load of the file would produce
Stored(file) == LoadedFields(JsonLoad(configs[file]))

\* C7: round trip of the configuration store: a load of a name puts back all four
\* entry texts exactly as they were when the name was last saved, whatever was
\* typed into the entries in between.
C7_SaveLoadRoundTrip ==
    /\ DOMAIN configs = DOMAIN lastSaved
    /\ (last.op = "load" /\ last.found) =>
          /\ last.file \in DOMAIN lastSaved
          /\ fields = lastSaved[last.file]

\* a name was saved, the entries were changed, and the name was loaded
C7_Witness ==
    /\ last.op = "load"
    /\ last.found
    /\ last.before # fields
    /\ \A k \in Entries : fields[k] # <<>>

\* C8: a load of a name for which no record exists (the last-used record at the
\* first start included) leaves the four entry texts as they were and shows no error.
C8_MissingRecordLeavesFields ==
    (last.op \in {"load", "startup"} /\ ~last.found) =>
        /\ fields = last.before
        /\ last.msg = "none"
        /\ pc = "idle"

\* the dropdown offered a name without a record, it was picked while the entries
\* were filled in
C8_Witness ==
    /\ last.op = "load"
    /\ ~last.found
    /\ \A k \in Entries : fields[k] # <<>>

WellFormed(entries) ==
    /\ IntParses(entries[WIDTH_ENTRY]) /\ IntValue(entries[WIDTH_ENTRY]) > 0
    /\ IntParses(entries[HEIGHT_ENTRY]) /\ IntValue(entries[HEIGHT_ENTRY]) > 0
    /\ IntParses(entries[BORDER_SIZE_HEIGHT_ENTRY])
    /\ IntValue(entries[BORDER_SIZE_HEIGHT_ENTRY]) >= 0
    /\ entries[POSTFIX_ENTRY] # <<>>

\* C2 as stated: process_images goes on to save the configuration and to show the
\* file dialog only when width and height are positive integers, the border is a
\* non-negative integer and the postfix is not empty.
C2_StartsOnlyWellFormed ==
    pc \in {"askopenfilenames", "askdirectory", "loop", "raised", "showinfo"} =>
        WellFormed(fields)

----------------------------------------------------------------------------
(* Properties of the batch driver, checked under BatchSpec *)

InBatch == pc \in {"loop", "raised", "showinfo"}

\* C3: when the user declines the crop of a file, no output is written for it, the
\* loop goes on with the files after it, the files before and after it that were
\* not declined themselves are written, and the completion notice is shown.
C3_DeclineSkipsOneFile ==
    InBatch =>
        /\ Len(log) <= Len(input_file_paths)
        /\ \A i \in 1..Len(log) :
              /\ log[i].src = input_file_paths[i].path
              /\ log[i].answer = "no" =>
                    /\ log[i].status = "declined"
                    /\ \A x \in written : x.src # log[i].src
              /\ log[i].status = "saved" => \E x \in written : x.src = log[i].src
        /\ ret.status = "declined" => pc \in {"loop", "showinfo"}
        /\ pc = "loop" => Len(log) = idx - 1
        /\ pc = "showinfo" =>
              /\ Len(log) = Len(input_file_paths)
              /\ last.msg = "Process Complete"
              /\ \A i \in 1..Len(log) : log[i].status \in {"saved", "declined"}

\* a batch of three is complete: the second file was declined, the first and the
\* third are written
C3_Witness ==
    /\ pc = "showinfo"
    /\ Len(log) = 3
    /\ log[1].status = "saved"
    /\ log[2].answer = "no"
    /\ log[3].status = "saved"
    /\ Cardinality(written) = 2

\* os.path.dirname
dirname(p) == SubSeq(p, 1, LastIndexOf(p, "/") - 1)

====
